---- MODULE Spec2Model ----
(***************************************************************************)
(* Model of pkg/util/log (log.go): the Logger facade over go-kit's level   *)
(* filter, the Pairs encoder mapToArray, the Once tracker guarded by       *)
(* onceMutex, Fatal, and the sink selection of the two constructors.       *)
(*                                                                         *)
(* Go strings that the code converts or concatenates (level names, dedup   *)
(* keys, file names) are sequences of one-character strings, so ToLower,   *)
(* "+" and strings.Replace are computed character by character.            *)
(***************************************************************************)
EXTENDS Integers, Sequences, FiniteSets, TLC

\* ------------------------------------------------------------------ bounds
NProcs == 2
MaxCalls == 2
MaxOnceSeq == 3
MaxEncKeys == 3
MaxNameParts == 3
MaxInstanceID == 11

Procs == 1..NProcs

\* ----------------------------------------------------------- Go strings
s_debug == <<"d","e","b","u","g">>
s_info == <<"i","n","f","o">>
s_warn == <<"w","a","r","n">>
s_error == <<"e","r","r","o","r">>
s_trace == <<"t","r","a","c","e">>
s_none == <<"n","o","n","e">>
s_empty == <<>>
s_bogus == <<"b","o","g","u","s">>
s_WARN == <<"W","A","R","N">>
s_Trace == <<"T","r","a","c","e">>
s_dotlog == <<".","l","o","g">>
s_applog == <<"a","p","p",".","l","o","g">>

UpperCase == <<"A","B","C","D","E","F","G","H","I","J","K","L","M",
               "N","O","P","Q","R","S","T","U","V","W","X","Y","Z">>
LowerCase == <<"a","b","c","d","e","f","g","h","i","j","k","l","m",
               "n","o","p","q","r","s","t","u","v","w","x","y","z">>

ToLowerChar(c) ==
    IF \E i \in 1..26 : UpperCase[i] = c
    THEN LowerCase[CHOOSE i \in 1..26 : UpperCase[i] = c]
    ELSE c

\* strings.ToLower
ToLower(s) == [i \in 1..Len(s) |-> ToLowerChar(s[i])]

Digits == <<"0","1","2","3","4","5","6","7","8","9">>

RECURSIVE Itoa(_)
\* strconv.Itoa for the non-negative identifiers New passes to it
Itoa(n) == IF n < 10 THEN <<Digits[n + 1]>>
           ELSE Itoa(n \div 10) \o <<Digits[(n % 10) + 1]>>

\* strings.Index: position of the first occurrence of old in s, 0 if none
Index(s, old) ==
    LET hits == {i \in 1..(Len(s) - Len(old) + 1) :
                    SubSeq(s, i, i + Len(old) - 1) = old}
    IN IF hits = {} THEN 0 ELSE CHOOSE i \in hits : \A j \in hits : i <= j

\* strings.Replace(s, old, new, 1)
ReplaceFirst(s, old, new) ==
    LET i == Index(s, old)
    IN IF i = 0 THEN s
       ELSE SubSeq(s, 1, i - 1) \o new \o SubSeq(s, i + Len(old), Len(s))

\* ------------------------------------------------- interface{} values
Str(s) == [t |-> "string", v |-> s]
LevelValue(s) == [t |-> "levelValue", v |-> s]
NilIface == [t |-> "nil", v |-> ""]

\* ------------------------------------------------------------- Pairs
\* A Pairs value is a Go map: nil, or a mapping from keys to values.
NilPairs == [nil |-> TRUE, kv |-> <<>>]
MkPairs(f) == [nil |-> FALSE, kv |-> f]
PairsKeys(detail) == IF detail.nil THEN {} ELSE DOMAIN detail.kv
PairsLen(detail) == Cardinality(PairsKeys(detail))
HasKey(detail, k) == k \in PairsKeys(detail)

\* delete(detail, k): no-op on a nil map or an absent key
DeleteKey(detail, k) ==
    IF detail.nil THEN detail
    ELSE MkPairs([x \in (DOMAIN detail.kv) \ {k} |-> detail.kv[x]])

\* detail[k] = v: assignment to an entry of a nil map panics (see PanicsOnSet)
SetKey(detail, k, v) ==
    MkPairs([x \in (PairsKeys(detail) \cup {k}) |->
                IF x = k THEN v ELSE detail.kv[x]])
PanicsOnSet(detail) == detail.nil

\* the orders in which "for k, v := range detail" may visit a key set
RangeOrders(keys) ==
    {o \in [1..Cardinality(keys) -> keys] :
        \A i, j \in 1..Cardinality(keys) : i # j => o[i] # o[j]}

RECURSIVE RangeFill(_, _, _, _)
\* the loop of mapToArray: a[i] = k; a[i+1] = v; i += 2 (i is 0-based)
RangeFill(a, i, detail, order) ==
    IF order = <<>> THEN a
    ELSE RangeFill([a EXCEPT ![i + 1] = Str(Head(order)),
                             ![i + 2] = detail.kv[Head(order)]],
                   i + 2, detail, Tail(order))

\* mutant: i is not advanced after the "level" pair
LevelSlots_Zero(detail) == 0

\* the index i after the "level" block of mapToArray
LevelSlots(detail) == IF HasKey(detail, "level") THEN 2 ELSE 0

\* mapToArray(event, detail), for one iteration order of the remaining keys
mapToArray(event, detail, order) ==
    LET a0 == [j \in 1..((PairsLen(detail) * 2) + 2) |-> NilIface]
        i1 == LevelSlots(detail)
        a1 == IF HasKey(detail, "level")
              THEN [a0 EXCEPT ![1] = Str("level"), ![2] = detail.kv["level"]]
              ELSE a0
        a2 == [a1 EXCEPT ![i1 + 1] = Str("event"), ![i1 + 2] = Str(event)]
    IN RangeFill(a2, i1 + 2, DeleteKey(detail, "level"), order)

\* every array mapToArray(event, detail) can return
MapToArrayResults(event, detail) ==
    {mapToArray(event, detail, o) :
        o \in RangeOrders(PairsKeys(DeleteKey(detail, "level")))}

\* --------------------------------------------- go-kit level filter
AllowDebug == {"error", "warn", "info", "debug"}
AllowInfo == {"error", "warn", "info"}
AllowWarn == {"error", "warn"}
AllowError == {"error"}
AllowNone == {}

\* mutant: the filter is built around a fresh writer instead of next
NewFilter_Detached(next, allowed) ==
    [next |-> [wr |-> [kind |-> "none", Filename |-> <<>>]], allowed |-> allowed]

\* level.NewFilter(next, option)
NewFilter(next, allowed) == [next |-> next, allowed |-> allowed]

\* mutant: the default branch of the switch allows debug
AllowedFor_DefaultDebug(lv) ==
    CASE lv = s_debug -> AllowDebug
      [] lv = s_info -> AllowInfo
      [] lv = s_warn -> AllowWarn
      [] lv = s_error -> AllowError
      [] lv = s_trace -> AllowDebug
      [] lv = s_none -> AllowNone
      [] OTHER -> AllowDebug

\* the switch of SetLogLevel on the (lower-cased) level string
AllowedFor(lv) ==
    CASE lv = s_debug -> AllowDebug
      [] lv = s_info -> AllowInfo
      [] lv = s_warn -> AllowWarn
      [] lv = s_error -> AllowError
      [] lv = s_trace -> AllowDebug
      [] lv = s_none -> AllowNone
      [] OTHER -> AllowInfo

\* level.Info(l) etc.: log.WithPrefix(l, "level", <levelValue>)
WithLevelPrefix(sev, keyvals) == <<Str("level"), LevelValue(sev)>> \o keyvals

\* the filter's Log: the first *levelValue among the values decides; a
\* record without one passes (squelchNoLevel is off by default)
FilterPasses(filter, keyvals) ==
    LET idx == {i \in 1..Len(keyvals) : i % 2 = 0 /\ keyvals[i].t = "levelValue"}
    IN IF idx = {} THEN TRUE
       ELSE keyvals[CHOOSE i \in idx : \A j \in idx : i <= j].v \in filter.allowed

\* log.With(logfmt logger, "time", ..., "app", "trickster", "caller", ...)
ContextPrefix == <<Str("time"), Str("<utc>"), Str("app"), Str("trickster"),
                   Str("caller"), Str("<caller>")>>

\* ------------------------------------------------------ constructors
StdoutWriter == [kind |-> "stdout", Filename |-> <<>>]
FileWriter(name) == [kind |-> "file", Filename |-> name]

NoLogger == [next |-> [wr |-> [kind |-> "none", Filename |-> <<>>]], allowed |-> {}]

noopLogger ==
    [baseLogger |-> [wr |-> [kind |-> "none", Filename |-> <<>>]],
     logger |-> NoLogger,
     closer |-> "nil",
     level |-> <<>>,
     onceRanEntries |-> {}]

\* SetLogLevel run to completion by one caller (as the constructors run it)
SetLogLevel(l, logLevel) ==
    LET lv == ToLower(logLevel)
    IN [l EXCEPT !.level = lv,
                 !.logger = NewFilter(l.baseLogger, AllowedFor(lv))]

ConsoleLogger(logLevel) ==
    SetLogLevel([noopLogger EXCEPT !.baseLogger = [wr |-> StdoutWriter]], logLevel)

\* the file name New gives the rotating writer
LogFileName(conf) ==
    IF conf.InstanceID > 0
    THEN ReplaceFirst(conf.LogFile, s_dotlog,
                      <<".">> \o Itoa(conf.InstanceID) \o s_dotlog)
    ELSE conf.LogFile

\* wr.(io.Closer): *os.File and *lumberjack.Logger both implement io.Closer
CloserOf(wr) == IF wr.kind \in {"stdout", "file"} THEN wr.kind ELSE "nil"

New(conf) ==
    LET wr == IF conf.LogFile = <<>> THEN StdoutWriter
              ELSE FileWriter(LogFileName(conf))
        l1 == SetLogLevel([noopLogger EXCEPT !.baseLogger = [wr |-> wr]],
                          conf.LogLevel)
    IN [l1 EXCEPT !.closer = CloserOf(wr)]

DefaultLogger == ConsoleLogger(s_info)

\* ------------------------------------------------------------ inputs
LevelInputs == {s_debug, s_info, s_warn, s_error, s_trace, s_none,
                s_empty, s_bogus, s_WARN}
CtorLevels == {s_info, s_Trace}
Events == {"e"}
Details == {NilPairs,
            MkPairs([k \in {"x"} |-> Str("1")]),
            MkPairs([k \in {"level", "x"} |-> Str(IF k = "level" THEN "debug" ELSE "1")])}
OnceDetails == {MkPairs([k \in {"x"} |-> Str("1")])}
Keys == {<<"a">>, <<"w","a","r","n",".","a">>}
Codes == {-1, 1}
Confs == [LogFile : {s_empty, s_applog}, InstanceID : {0, 3}, LogLevel : CtorLevels]

LevelOps == {"Info", "Warn", "Error", "Debug"}
OnceOps == {"InfoOnce", "WarnOnce", "ErrorOnce"}
OnceIds == OnceOps \X Keys

NoCall == [op |-> "none", key |-> <<>>, event |-> "", detail |-> NilPairs,
           lvl |-> <<>>, code |-> 0]
MkCall(op, key, event, detail, lvl, code) ==
    [op |-> op, key |-> key, event |-> event, detail |-> detail,
     lvl |-> lvl, code |-> code]

EmitCalls ==
    {MkCall(op, <<>>, e, d, <<>>, 0) :
        op \in LevelOps \cup {"Trace"}, e \in Events, d \in Details}
    \cup {MkCall("Fatal", <<>>, e, d, <<>>, c) : e \in Events, d \in Details, c \in Codes}
OnceCalls ==
    {MkCall(op, k, e, d, <<>>, 0) :
        op \in OnceOps, k \in Keys, e \in Events, d \in OnceDetails}
    \cup {MkCall("HasWarnedOnce", k, "", NilPairs, <<>>, 0) : k \in Keys}
ConfigCalls ==
    {MkCall("SetLogLevel", <<>>, "", NilPairs, lv, 0) : lv \in LevelInputs}
    \cup {MkCall("Level", <<>>, "", NilPairs, <<>>, 0),
          MkCall("Close", <<>>, "", NilPairs, <<>>, 0)}
Calls == EmitCalls \cup OnceCalls \cup ConfigCalls

\* ------------------------------------------------------------- state
VARIABLES
    baseLogger,      \* tl.baseLogger
    logger,          \* tl.logger
    closer,          \* tl.closer: "nil", "stdout" or "file"
    level,           \* tl.level
    onceMutex,       \* holder of tl.onceMutex, 0 when unlocked
    onceRanEntries,  \* key set of tl.onceRanEntries
    sink,            \* records written so far: their number and the last one
    stdoutOpen,      \* os.Stdout has not been closed
    fileOpen,        \* the rotating writer holds an open file
    term,            \* process termination: os.Exit or an unrecovered panic
    pc, call, ret, lvlRet, sw,   \* each caller's position, arguments and locals
    ld,              \* Trace: the word of tl.level the comparison loaded first
    wrote,           \* the record the caller's call handed to the writer, if any
    ncalls,          \* calls made so far
    lastSet,         \* argument of the SetLogLevel call that completed last
    invoked,         \* Once calls whose critical section has run: <<op, key>>
    onceTrue, onceEmit, onceDone,   \* per <<op, key>>: true returns, emissions, returns
    contended,       \* <<op, key>> invoked while the same call was in flight
    prevLevel,       \* tl.level before the SetLogLevel call in progress wrote it
    cands,           \* per emission call: the level strings in force during it
    encEvent, encDetail, encOut, encDone,  \* input and output of the encoder runs
    nameConf, nameOut, nameDone   \* input and output of the file-name runs

logVars == <<baseLogger, logger, closer, level>>
onceVars == <<onceMutex, onceRanEntries>>
sinkVars == <<sink, stdoutOpen, fileOpen>>
procVars == <<pc, call, ret, lvlRet, sw, ld, wrote>>
histVars == <<ncalls, lastSet, invoked, onceTrue, onceEmit, onceDone, contended>>
cfgVars == <<prevLevel, cands>>
encVars == <<encEvent, encDetail, encOut, encDone>>
nameVars == <<nameConf, nameOut, nameDone>>
pureVars == <<encVars, nameVars>>
vars == <<logVars, onceVars, sinkVars, term, procVars, histVars, cfgVars, pureVars>>

NotTerminated == [done |-> FALSE, by |-> 0, code |-> 0, panic |-> FALSE]
EmptySink == [n |-> 0, last |-> <<>>]
NoLoad == [word |-> "none", of |-> <<>>]

\* the state a constructor leaves behind, before any caller runs
LoggerInit(l, lv) ==
    /\ baseLogger = l.baseLogger
    /\ logger = l.logger
    /\ closer = l.closer
    /\ level = l.level
    /\ onceRanEntries = l.onceRanEntries
    /\ onceMutex = 0
    /\ sink = EmptySink
    /\ stdoutOpen = TRUE
    /\ fileOpen = FALSE
    /\ term = NotTerminated
    /\ pc = [p \in Procs |-> "idle"]
    /\ call = [p \in Procs |-> NoCall]
    /\ ret = [p \in Procs |-> FALSE]
    /\ lvlRet = [p \in Procs |-> <<>>]
    /\ sw = [p \in Procs |-> <<>>]
    /\ ld = [p \in Procs |-> NoLoad]
    /\ wrote = [p \in Procs |-> <<>>]
    /\ ncalls = 0
    /\ lastSet = lv
    /\ invoked = {}
    /\ onceTrue = [id \in OnceIds |-> 0]
    /\ onceEmit = [id \in OnceIds |-> 0]
    /\ onceDone = [id \in OnceIds |-> 0]
    /\ contended = {}
    /\ prevLevel = <<>>
    /\ cands = [p \in Procs |-> {}]

EncIdle ==
    /\ encEvent = ""
    /\ encDetail = NilPairs
    /\ encOut = <<>>
    /\ encDone = FALSE

NameIdle ==
    /\ nameConf = [LogFile |-> <<>>, InstanceID |-> 0, LogLevel |-> s_info]
    /\ nameOut = <<>>
    /\ nameDone = FALSE

Init ==
    /\ \/ \E lv \in CtorLevels : LoggerInit(ConsoleLogger(lv), lv)
       \/ \E conf \in Confs : LoggerInit(New(conf), conf.LogLevel)
    /\ EncIdle
    /\ NameIdle

\* ------------------------------------------------------------- sink
\* a write through the sync writer reaches the sink unless the sink is a
\* closed os.Stdout; the rotating writer (re)opens its file on a write
Writable(base) == base.wr.kind = "file" \/ (base.wr.kind = "stdout" /\ stdoutOpen)

\* baseLogger.Log(keyvals): the context prefix, then the record's own fields
BaseLog(base, keyvals) ==
    IF Writable(base)
    THEN /\ sink' = [n |-> sink.n + 1, last |-> ContextPrefix \o keyvals]
         /\ fileOpen' = (fileOpen \/ base.wr.kind = "file")
         /\ UNCHANGED stdoutOpen
    ELSE UNCHANGED sinkVars

\* lg.Log(keyvals) on a filtered logger lg
FilterLog(lg, keyvals) ==
    IF FilterPasses(lg, keyvals) THEN BaseLog(lg.next, keyvals)
    ELSE UNCHANGED sinkVars

\* what lg.Log(keyvals) hands to the writer behind the filter: the record, or
\* nothing (the empty sequence) when the filter rejects it
Handed(lg, keyvals) == IF FilterPasses(lg, keyvals) THEN keyvals ELSE <<>>

SevOf(op) ==
    CASE op \in {"Info", "InfoOnce"} -> "info"
      [] op \in {"Warn", "WarnOnce"} -> "warn"
      [] op \in {"Error", "ErrorOnce"} -> "error"
      [] op = "Debug" -> "debug"

\* level.<Sev>(tl.logger).Log(mapToArray(event, detail)...)
LevelLog(p, sev) ==
    \E a \in MapToArrayResults(call[p].event, call[p].detail) :
        /\ FilterLog(logger, WithLevelPrefix(sev, a))
        /\ wrote' = [wrote EXCEPT ![p] = Handed(logger, WithLevelPrefix(sev, a))]

\* an unrecovered panic takes the process down with exit status 2
Panic(p) ==
    /\ term' = [done |-> TRUE, by |-> p, code |-> 2, panic |-> TRUE]
    /\ UNCHANGED <<logVars, onceVars, sinkVars, procVars, histVars, cfgVars, pureVars>>

Running == ~term.done
At(p, label) == Running /\ pc[p] = label
Goto(p, label) == pc' = [pc EXCEPT ![p] = label]

\* ------------------------------------------------------------- calls
FirstLabel(op) ==
    CASE op \in LevelOps -> "emit"
      [] op = "Trace" -> "trace"
      [] op = "Fatal" -> "fatal"
      [] op \in OnceOps -> "once_lock"
      [] op = "HasWarnedOnce" -> "hw_lock"
      [] op = "SetLogLevel" -> "set_level"
      [] op = "Level" -> "level"
      [] op = "Close" -> "close"

\* the level strings in force: the stored one and, while a SetLogLevel call
\* has written tl.level but not yet tl.logger, the one it replaced
CfgNow ==
    IF \E q \in Procs : pc[q] \in {"set_switch", "set_logger"}
    THEN {prevLevel, level} ELSE {level}

InFlight(q, op, key) == pc[q] # "idle" /\ call[q].op = op /\ call[q].key = key

\* a caller enters one of the Logger's methods, with a call drawn from cs,
\* while fewer than n calls have been made
CallUpTo(p, cs, n) ==
    /\ At(p, "idle")
    /\ ncalls < n
    /\ \E c \in cs :
        /\ call' = [call EXCEPT ![p] = c]
        /\ Goto(p, FirstLabel(c.op))
        /\ contended' = IF c.op \in OnceOps
                           /\ \E q \in Procs \ {p} : InFlight(q, c.op, c.key)
                        THEN contended \cup {<<c.op, c.key>>}
                        ELSE contended
    /\ ncalls' = ncalls + 1
    /\ cands' = [cands EXCEPT ![p] =
                    IF call'[p].op \in LevelOps \cup {"Trace"} THEN CfgNow ELSE {}]
    /\ UNCHANGED <<logVars, onceVars, sinkVars, term, ret, lvlRet, sw, ld, wrote,
                   lastSet, invoked, onceTrue, onceEmit, onceDone, prevLevel, pureVars>>

CallOf(p, cs) == CallUpTo(p, cs, MaxCalls)

\* the method returns to its caller
Return(p) ==
    /\ At(p, "ret")
    /\ Goto(p, "idle")
    /\ call' = [call EXCEPT ![p] = NoCall]
    /\ ret' = [ret EXCEPT ![p] = FALSE]
    /\ lvlRet' = [lvlRet EXCEPT ![p] = <<>>]
    /\ sw' = [sw EXCEPT ![p] = <<>>]
    /\ ld' = [ld EXCEPT ![p] = NoLoad]
    /\ wrote' = [wrote EXCEPT ![p] = <<>>]
    /\ cands' = [cands EXCEPT ![p] = {}]
    /\ UNCHANGED <<logVars, onceVars, sinkVars, term, histVars, prevLevel, pureVars>>

\* ------------------------------------------- Info, Warn, Error, Debug
Emit(p) ==
    /\ At(p, "emit")
    /\ LevelLog(p, SevOf(call[p].op))
    /\ Goto(p, "ret")
    /\ UNCHANGED <<logVars, onceVars, term, call, ret, lvlRet, sw, ld, histVars, cfgVars, pureVars>>

\* -------------------------------------------------------------- Trace
\* if tl.level == "trace": the string header of tl.level is two words, its
\* data pointer and its length, which the comparison loads one after the
\* other, in an order the build chooses, with no synchronisation; a
\* SetLogLevel call may store a new string between the two loads
TraceLoad(p) ==
    /\ At(p, "trace")
    /\ \E w \in {"ptr", "len"} : ld' = [ld EXCEPT ![p] = [word |-> w, of |-> level]]
    /\ Goto(p, "trace_cmp")
    /\ UNCHANGED <<logVars, onceVars, sinkVars, term, call, ret, lvlRet, sw, wrote,
                   histVars, cfgVars, pureVars>>

\* the outcomes of comparing with "trace" the n bytes at the data pointer of
\* str: unequal unless n is 5, and then the five bytes decide, where bytes
\* past the end of str are whatever the memory holds
EqualsTrace(str, n) ==
    IF n # Len(s_trace) THEN {FALSE}
    ELSE IF Len(str) >= n THEN {SubSeq(str, 1, n) = s_trace}
    ELSE IF str = SubSeq(s_trace, 1, Len(str)) THEN BOOLEAN
    ELSE {FALSE}

\* the outcomes of tl.level == "trace" once the second word is loaded
LevelIsTrace(p) ==
    IF ld[p].word = "ptr" THEN EqualsTrace(ld[p].of, Len(level))
    ELSE EqualsTrace(level, Len(ld[p].of))

TraceSkip(p) ==
    /\ At(p, "trace_cmp")
    /\ FALSE \in LevelIsTrace(p)
    /\ Goto(p, "ret")
    /\ UNCHANGED <<logVars, onceVars, sinkVars, term, call, ret, lvlRet, sw, ld, wrote,
                   histVars, cfgVars, pureVars>>

TracePanic(p) ==
    /\ At(p, "trace_cmp")
    /\ TRUE \in LevelIsTrace(p)
    /\ PanicsOnSet(call[p].detail)
    /\ Panic(p)

TraceLog(p) ==
    /\ At(p, "trace_cmp")
    /\ TRUE \in LevelIsTrace(p)
    /\ ~PanicsOnSet(call[p].detail)
    /\ \E a \in MapToArrayResults(call[p].event,
                                  SetKey(call[p].detail, "level", Str("trace"))) :
        /\ FilterLog(logger, a)
        /\ wrote' = [wrote EXCEPT ![p] = Handed(logger, a)]
    /\ Goto(p, "ret")
    /\ UNCHANGED <<logVars, onceVars, term, call, ret, lvlRet, sw, ld, histVars, cfgVars, pureVars>>

\* -------------------------------------------------------------- Fatal
FatalPanic(p) ==
    /\ At(p, "fatal")
    /\ PanicsOnSet(call[p].detail)
    /\ Panic(p)

FatalLog(p) ==
    /\ At(p, "fatal")
    /\ ~PanicsOnSet(call[p].detail)
    /\ \E a \in MapToArrayResults(call[p].event,
                                  SetKey(call[p].detail, "level", Str("fatal"))) :
        /\ FilterLog(logger, a)
        /\ wrote' = [wrote EXCEPT ![p] = Handed(logger, a)]
    /\ Goto(p, "fatal_exit")
    /\ UNCHANGED <<logVars, onceVars, term, call, ret, lvlRet, sw, ld, histVars, cfgVars, pureVars>>

\* if code >= 0 { os.Exit(code) }
ShouldExit(code) == code >= 0

FatalExit(p) ==
    /\ At(p, "fatal_exit")
    /\ ShouldExit(call[p].code)
    /\ term' = [done |-> TRUE, by |-> p, code |-> call[p].code, panic |-> FALSE]
    /\ UNCHANGED <<logVars, onceVars, sinkVars, procVars, histVars, cfgVars, pureVars>>

FatalReturn(p) ==
    /\ At(p, "fatal_exit")
    /\ ~ShouldExit(call[p].code)
    /\ Goto(p, "ret")
    /\ UNCHANGED <<logVars, onceVars, sinkVars, term, call, ret, lvlRet, sw, ld, wrote,
                   histVars, cfgVars, pureVars>>

\* ------------------------------------------------------- Once tracker
s_infoDot == <<"i","n","f","o",".">>
s_warnDot == <<"w","a","r","n",".">>
s_errorDot == <<"e","r","r","o","r",".">>

\* mutant: every severity shares the "warn." namespace
OncePrefix_Shared(op) == s_warnDot

OncePrefix(op) ==
    CASE op = "InfoOnce" -> s_infoDot
      [] op \in {"WarnOnce", "HasWarnedOnce"} -> s_warnDot
      [] op = "ErrorOnce" -> s_errorDot

\* key = "<severity>." + key
OnceKey(op, key) == OncePrefix(op) \o key

\* mutant: Lock() never waits, as if the Once family took no lock
CanLock_NoMutex(p) == TRUE

\* tl.onceMutex.Lock() succeeds only while nobody holds the mutex
CanLock(p) == onceMutex = 0

\* mutant: Unlock() leaves the mutex with its holder
Unlocked_Held(p) == p

\* tl.onceMutex.Unlock(): nobody holds the mutex
Unlocked(p) == 0

OnceLock(p) ==
    /\ At(p, "once_lock")
    /\ CanLock(p)
    /\ onceMutex' = p
    /\ Goto(p, "once_check")
    /\ UNCHANGED <<logVars, onceRanEntries, sinkVars, term, call, ret, lvlRet, sw, ld,
                   wrote, histVars, cfgVars, pureVars>>

\* mutant: the lookup never finds the key
HasRun_Never(entries, key) == FALSE

\* _, ok := entries[key]
HasRun(entries, key) == key \in entries

\* if _, ok := tl.onceRanEntries[key]; !ok
OnceCheck(p) ==
    /\ At(p, "once_check")
    /\ IF HasRun(onceRanEntries, OnceKey(call[p].op, call[p].key))
       THEN Goto(p, "once_unlock")
       ELSE Goto(p, "once_insert")
    /\ invoked' = invoked \cup {<<call[p].op, call[p].key>>}
    /\ UNCHANGED <<logVars, onceVars, sinkVars, term, call, ret, lvlRet, sw, ld, wrote,
                   ncalls, lastSet, onceTrue, onceEmit, onceDone, contended, cfgVars, pureVars>>

\* mutant: the assignment is lost
MarkRan_Lost(entries, key) == entries

\* entries[key] = true
MarkRan(entries, key) == entries \cup {key}

\* tl.onceRanEntries[key] = true
OnceInsert(p) ==
    /\ At(p, "once_insert")
    /\ onceRanEntries' = MarkRan(onceRanEntries, OnceKey(call[p].op, call[p].key))
    /\ Goto(p, "once_emit")
    /\ UNCHANGED <<logVars, onceMutex, sinkVars, term, call, ret, lvlRet, sw, ld, wrote,
                   histVars, cfgVars, pureVars>>

\* tl.Info(event, detail); return true
OnceEmit(p) ==
    /\ At(p, "once_emit")
    /\ LevelLog(p, SevOf(call[p].op))
    /\ ret' = [ret EXCEPT ![p] = TRUE]
    /\ onceEmit' = [onceEmit EXCEPT ![<<call[p].op, call[p].key>>] = @ + 1]
    /\ Goto(p, "once_unlock")
    /\ UNCHANGED <<logVars, onceVars, term, call, lvlRet, sw, ld, ncalls, lastSet,
                   invoked, onceTrue, onceDone, contended, cfgVars, pureVars>>

\* the deferred tl.onceMutex.Unlock(), run as the call returns
OnceUnlock(p) ==
    /\ At(p, "once_unlock")
    /\ onceMutex' = Unlocked(p)
    /\ onceDone' = [onceDone EXCEPT ![<<call[p].op, call[p].key>>] = @ + 1]
    /\ onceTrue' = [onceTrue EXCEPT ![<<call[p].op, call[p].key>>] =
                        IF ret[p] THEN @ + 1 ELSE @]
    /\ Goto(p, "ret")
    /\ UNCHANGED <<logVars, onceRanEntries, sinkVars, term, call, ret, lvlRet, sw, ld,
                   wrote, ncalls, lastSet, invoked, onceEmit, contended, cfgVars, pureVars>>

HwLock(p) ==
    /\ At(p, "hw_lock")
    /\ CanLock(p)
    /\ onceMutex' = p
    /\ Goto(p, "hw_check")
    /\ UNCHANGED <<logVars, onceRanEntries, sinkVars, term, call, ret, lvlRet, sw, ld,
                   wrote, histVars, cfgVars, pureVars>>

\* _, ok := tl.onceRanEntries[key]; return ok
HwCheck(p) ==
    /\ At(p, "hw_check")
    /\ ret' = [ret EXCEPT ![p] = HasRun(onceRanEntries, OnceKey(call[p].op, call[p].key))]
    /\ Goto(p, "hw_unlock")
    /\ UNCHANGED <<logVars, onceVars, sinkVars, term, call, lvlRet, sw, ld, wrote,
                   histVars, cfgVars, pureVars>>

HwUnlock(p) ==
    /\ At(p, "hw_unlock")
    /\ onceMutex' = Unlocked(p)
    /\ Goto(p, "ret")
    /\ UNCHANGED <<logVars, onceRanEntries, sinkVars, term, call, ret, lvlRet, sw, ld,
                   wrote, histVars, cfgVars, pureVars>>

\* ------------------------------------------------------- SetLogLevel
\* tl.level = strings.ToLower(logLevel)
SetLevel(p) ==
    /\ At(p, "set_level")
    /\ level' = ToLower(call[p].lvl)
    /\ prevLevel' = level
    /\ cands' = [q \in Procs |->
                    IF cands[q] = {} THEN {} ELSE cands[q] \cup {ToLower(call[p].lvl)}]
    /\ Goto(p, "set_switch")
    /\ UNCHANGED <<baseLogger, logger, closer, onceVars, sinkVars, term, call, ret,
                   lvlRet, sw, ld, wrote, histVars, pureVars>>

\* switch tl.level
SetSwitch(p) ==
    /\ At(p, "set_switch")
    /\ sw' = [sw EXCEPT ![p] = level]
    /\ Goto(p, "set_logger")
    /\ UNCHANGED <<logVars, onceVars, sinkVars, term, call, ret, lvlRet, ld, wrote,
                   histVars, cfgVars, pureVars>>

\* tl.logger = level.NewFilter(tl.baseLogger, level.Allow...())
SetLogger(p) ==
    /\ At(p, "set_logger")
    /\ logger' = NewFilter(baseLogger, AllowedFor(sw[p]))
    /\ lastSet' = call[p].lvl
    /\ prevLevel' = <<>>
    /\ Goto(p, "ret")
    /\ UNCHANGED <<baseLogger, closer, level, onceVars, sinkVars, term, call, ret,
                   lvlRet, sw, ld, wrote, ncalls, invoked, onceTrue, onceEmit, onceDone,
                   contended, cands, pureVars>>

\* ------------------------------------------------------ Level, Close
Level == level

LevelRead(p) ==
    /\ At(p, "level")
    /\ lvlRet' = [lvlRet EXCEPT ![p] = Level]
    /\ Goto(p, "ret")
    /\ UNCHANGED <<logVars, onceVars, sinkVars, term, call, ret, sw, ld, wrote,
                   histVars, cfgVars, pureVars>>

\* if tl.closer != nil { tl.closer.Close() }
Close(p) ==
    /\ At(p, "close")
    /\ stdoutOpen' = (stdoutOpen /\ closer # "stdout")
    /\ fileOpen' = (fileOpen /\ closer # "file")
    /\ Goto(p, "ret")
    /\ UNCHANGED <<logVars, onceVars, sink, term, call, ret, lvlRet, sw, ld, wrote,
                   histVars, cfgVars, pureVars>>

\* ---------------------------------------------------- specifications
EmitStep(p) ==
    \/ Emit(p)
    \/ TraceLoad(p) \/ TraceSkip(p) \/ TracePanic(p) \/ TraceLog(p)
    \/ FatalPanic(p) \/ FatalLog(p) \/ FatalExit(p) \/ FatalReturn(p)

OnceStep(p) ==
    \/ OnceLock(p) \/ OnceCheck(p) \/ OnceInsert(p) \/ OnceEmit(p) \/ OnceUnlock(p)
    \/ HwLock(p) \/ HwCheck(p) \/ HwUnlock(p)

ConfigStep(p) ==
    \/ SetLevel(p) \/ SetSwitch(p) \/ SetLogger(p)
    \/ LevelRead(p) \/ Close(p)

\* any number of callers share the Logger and call any of its methods
Call(p) == CallOf(p, Calls)
Next == \E p \in Procs : Call(p) \/ Return(p) \/ EmitStep(p) \/ OnceStep(p) \/ ConfigStep(p)
Spec == Init /\ [][Next]_vars

\* one call at a time: a caller enters only when no call is in flight
SeqCall(p) == CallOf(p, Calls) /\ \A q \in Procs : pc[q] = "idle"
SeqNext == \E p \in Procs : SeqCall(p) \/ Return(p) \/ EmitStep(p) \/ OnceStep(p) \/ ConfigStep(p)
SeqSpec == Init /\ [][SeqNext]_vars

\* concurrent callers of the Once family and of HasWarnedOnce
OnceCall(p) == CallOf(p, OnceCalls)
OnceNext == \E p \in Procs : OnceCall(p) \/ Return(p) \/ OnceStep(p)
OnceSpec == Init /\ [][OnceNext]_vars

\* the scheduler runs every goroutine that can take a step: a call in flight
\* that is not waiting for the mutex takes its next step, and a Lock() that
\* can succeed for good does
OnceFairInit ==
    /\ LoggerInit(ConsoleLogger(s_info), s_info)
    /\ EncIdle
    /\ NameIdle
OnceFairSpec ==
    /\ OnceFairInit
    /\ [][OnceNext]_vars
    /\ \A p \in Procs : WF_vars(OnceStep(p) \/ Return(p))

\* one call at a time, of the Once family and of SetLogLevel, on a console
\* Logger built at a level that blocks some severity
StickyCtorLevels == {s_error, s_none}
StickyLevels == {s_debug, s_error, s_none}
StickyCalls ==
    OnceCalls \cup {MkCall("SetLogLevel", <<>>, "", NilPairs, lv, 0) : lv \in StickyLevels}
StickyInit ==
    /\ \E lv \in StickyCtorLevels : LoggerInit(ConsoleLogger(lv), lv)
    /\ EncIdle
    /\ NameIdle
StickyCall(p) == CallUpTo(p, StickyCalls, MaxOnceSeq) /\ \A q \in Procs : pc[q] = "idle"
StickyStep(p) == OnceStep(p) \/ SetLevel(p) \/ SetSwitch(p) \/ SetLogger(p)
StickyNext == \E p \in Procs : StickyCall(p) \/ Return(p) \/ StickyStep(p)
StickySpec == StickyInit /\ [][StickyNext]_vars

\* one SetLogLevel call at a time, racing with Info, Warn, Error, Debug and
\* Trace calls of the other callers
s_tracer == <<"t", "r", "a", "c", "e", "r">>
RaceCtorLevels == {s_debug, s_trace, s_none}
RaceLevels == {s_debug, s_trace, s_none, s_tracer}
RaceCalls ==
    {MkCall(op, <<>>, e, d, <<>>, 0) :
        op \in LevelOps \cup {"Trace"}, e \in Events, d \in OnceDetails}
    \cup {MkCall("SetLogLevel", <<>>, "", NilPairs, lv, 0) : lv \in RaceLevels}
RaceInit ==
    /\ \E lv \in RaceCtorLevels : LoggerInit(ConsoleLogger(lv), lv)
    /\ EncIdle
    /\ NameIdle
RaceCall(p) ==
    /\ CallOf(p, RaceCalls)
    /\ call'[p].op = "SetLogLevel" => \A q \in Procs \ {p} : call[q].op # "SetLogLevel"
RaceStep(p) ==
    \/ Emit(p)
    \/ TraceLoad(p) \/ TraceSkip(p) \/ TraceLog(p)
    \/ SetLevel(p) \/ SetSwitch(p) \/ SetLogger(p)
RaceNext == \E p \in Procs : RaceCall(p) \/ Return(p) \/ RaceStep(p)
RaceSpec == RaceInit /\ [][RaceNext]_vars

\* ----------------------------------------------- the Pairs encoder alone
EncKeyNames == <<"level", "x", "event", "y", "z">>
EncKeys == {EncKeyNames[i] : i \in 1..MaxEncKeys}
EncVals == {Str("debug"), Str("1")}
EncEvents == {"e", "level"}
EncDetails ==
    {NilPairs} \cup UNION {{MkPairs(f) : f \in [ks -> EncVals]} : ks \in SUBSET EncKeys}

EncInit ==
    /\ LoggerInit(DefaultLogger, s_info)
    /\ encEvent \in EncEvents
    /\ encDetail \in EncDetails
    /\ encOut = <<>>
    /\ encDone = FALSE
    /\ NameIdle

\* a := mapToArray(encEvent, encDetail)
Encode ==
    /\ ~encDone
    /\ encOut' \in MapToArrayResults(encEvent, encDetail)
    /\ encDone' = TRUE
    /\ UNCHANGED <<logVars, onceVars, sinkVars, term, procVars, histVars, cfgVars,
                   encEvent, encDetail, nameVars>>

EncNext == Encode
EncSpec == EncInit /\ [][EncNext]_vars

\* ------------------------------------- the file name of New alone
NameParts == {<<"a">>, s_dotlog, <<"s">>}

RECURSIVE Flatten(_)
Flatten(ss) == IF ss = <<>> THEN <<>> ELSE Head(ss) \o Flatten(Tail(ss))

\* non-empty log file paths built from up to MaxNameParts parts
NameFiles == {Flatten(ps) : ps \in UNION {[1..n -> NameParts] : n \in 1..MaxNameParts}}
NameIDs == (-1)..MaxInstanceID
NameConfs == [LogFile : NameFiles, InstanceID : NameIDs, LogLevel : {s_info}]

NameInit ==
    /\ LoggerInit(DefaultLogger, s_info)
    /\ EncIdle
    /\ nameConf \in NameConfs
    /\ nameOut = <<>>
    /\ nameDone = FALSE

\* l := New(nameConf); the Filename of the rotating writer behind l
NewName ==
    /\ ~nameDone
    /\ nameOut' = New(nameConf).baseLogger.wr.Filename
    /\ nameDone' = TRUE
    /\ UNCHANGED <<logVars, onceVars, sinkVars, term, procVars, histVars, cfgVars,
                   encVars, nameConf>>

NameNext == NewName
NameSpec == NameInit /\ [][NameNext]_vars

\* ================================================================ claims

\* calls of the Once operation id = <<op, key>> that hold a true result and
\* have not returned yet
PendingTrue(id) ==
    Cardinality({p \in Procs : /\ pc[p] = "once_unlock"
                               /\ ret[p]
                               /\ <<call[p].op, call[p].key>> = id})

\* C1: for a fixed Logger and dedup key, however the callers of one Once
\* operation interleave, at most one call emits and at most one gets true,
\* and as soon as any of the calls has returned exactly one emission has
\* happened and exactly one call has returned true.
C1_ExactlyOnce ==
    \A id \in OnceIds :
        /\ onceEmit[id] <= 1
        /\ onceTrue[id] + PendingTrue(id) <= 1
        /\ onceDone[id] >= 1 => (onceEmit[id] = 1 /\ onceTrue[id] = 1)

\* two or more overlapping calls of one Once operation have all returned
C1_Witness ==
    \E id \in contended :
        /\ onceDone[id] >= 2
        /\ onceTrue[id] = 1
        /\ onceEmit[id] = 1

HwLabels == {"hw_lock", "hw_check", "hw_unlock"}

\* C10 (state part): the result HasWarnedOnce(k) is about to return is true
\* exactly when WarnOnce(k) has run on this Logger, whatever InfoOnce and
\* ErrorOnce calls have run.
C10_Result ==
    \A p \in Procs :
        pc[p] = "hw_unlock" => (ret[p] <=> <<"WarnOnce", call[p].key>> \in invoked)

\* C10 (frame part): no step of a HasWarnedOnce call changes the dedup set.
C10_Frame ==
    \A p \in Procs :
        (pc[p] \in HwLabels /\ pc'[p] # pc[p]) => onceRanEntries' = onceRanEntries

\* C10: HasWarnedOnce(k) returns true iff WarnOnce(k, ...) was invoked
\* earlier on the same Logger, independently of InfoOnce and ErrorOnce calls
\* with the same or another key, and it never changes the dedup set.
C10_HasWarnedOnce == []C10_Result /\ [][C10_Frame]_vars

\* HasWarnedOnce(k) answers false although InfoOnce(k) has run
C10_Witness ==
    \E p \in Procs :
        /\ pc[p] = "hw_unlock"
        /\ ~ret[p]
        /\ <<"InfoOnce", call[p].key>> \in invoked
        /\ OnceKey("InfoOnce", call[p].key) \in onceRanEntries

\* ------------------------------------------------- sequential claims
KnownLevels == {s_debug, s_info, s_warn, s_error, s_trace, s_none}
Unrecognized(s) == ToLower(s) \notin KnownLevels

\* the severity order debug < info < warn < error
SevRank(sev) ==
    CASE sev = "debug" -> 0
      [] sev = "info" -> 1
      [] sev = "warn" -> 2
      [] sev = "error" -> 3

\* the threshold a level string stands for; "none" lies above every severity
ThresholdRank(lv) ==
    CASE lv \in {s_debug, s_trace} -> 0
      [] lv = s_info -> 1
      [] lv = s_warn -> 2
      [] lv = s_error -> 3
      [] lv = s_none -> 4
      [] OTHER -> 1

\* the call of p has ended: it is about to return, or it took the process down
Ended(p) == pc[p] = "ret" \/ (term.done /\ term.by = p)

\* the call of p handed a record to the writer
Wrote(p) == wrote[p] # <<>>

\* C2: with T the threshold of the last SetLogLevel, a Debug/Info/Warn/Error
\* call writes a record iff its severity is at or above T, and a Trace call
\* writes a record iff the stored level is exactly "trace".
C2_Claim ==
    \A p \in Procs :
        /\ (pc[p] = "ret" /\ call[p].op \in LevelOps) =>
              (Wrote(p) <=> SevRank(SevOf(call[p].op)) >= ThresholdRank(ToLower(lastSet)))
        /\ (Ended(p) /\ call[p].op = "Trace") => (Wrote(p) <=> level = s_trace)

\* C3: after SetLogLevel with a string that is not, case-insensitively, one
\* of the six level names (the empty string included), Info, Warn and Error
\* records are written (and reach the sink while it is open), Debug and
\* Trace records are not, and no emission call fails.
C3_UnknownIsInfo ==
    \A p \in Procs :
        (Ended(p) /\ Unrecognized(lastSet)) =>
            /\ call[p].op \in {"Info", "Warn", "Error"} =>
                  /\ Wrote(p)
                  /\ Writable(baseLogger) => sink.last = ContextPrefix \o wrote[p]
            /\ call[p].op \in {"Debug", "Trace"} => (~Wrote(p) /\ ~term.done)

\* an Info record was written after SetLogLevel("")
C3_Witness ==
    \E p \in Procs :
        /\ pc[p] = "ret"
        /\ call[p].op = "Info"
        /\ lastSet = s_empty
        /\ Wrote(p)
        /\ sink.last = ContextPrefix \o wrote[p]

\* C4: the stored level, as Level() returns it, is always one of none,
\* error, warn, info, debug, trace, and it is "info" after SetLogLevel with
\* an unrecognized string.
C4_Claim ==
    /\ Level \in KnownLevels
    /\ \A p \in Procs :
          (pc[p] = "ret" /\ call[p].op = "SetLogLevel" /\ Unrecognized(call[p].lvl))
              => Level = s_info

IsFatalRecord(r) == Len(r) >= 2 /\ r[1] = Str("level") /\ r[2] = Str("fatal")

\* C5: at every configured level, a Fatal call writes one record tagged
\* level="fatal".
C5_Claim ==
    \A p \in Procs :
        (call[p].op = "Fatal" /\ (pc[p] = "fatal_exit" \/ Ended(p)))
            => IsFatalRecord(wrote[p])

\* C6: Fatal(code, ...) ends the process, with exit code `code` and after
\* the fatal record was written, iff code >= 0; with a negative code the
\* process goes on and the call returns.
C6_Claim ==
    \A p \in Procs :
        call[p].op = "Fatal" =>
            /\ (term.done /\ term.by = p) =>
                  /\ call[p].code >= 0
                  /\ term.code = call[p].code
                  /\ IsFatalRecord(wrote[p])
            /\ pc[p] = "ret" => call[p].code < 0

\* C7: Close() on a Logger that writes to standard output (built by
\* ConsoleLogger or by New with an empty LogFile) releases nothing and leaves
\* standard output open.
C7_Claim ==
    \A p \in Procs :
        (pc[p] = "ret" /\ call[p].op = "Close" /\ baseLogger.wr.kind = "stdout")
            => stdoutOpen

SetLabels == {"set_level", "set_switch", "set_logger"}

\* C8: a step of SetLogLevel changes nothing but the stored level and the
\* active writer: the base writer, the closer, the dedup set and its mutex
\* and the sink stay as they are, and a new active writer wraps the base
\* writer.
C8_Frame ==
    [][\A p \in Procs :
          (pc[p] \in SetLabels /\ pc'[p] # pc[p]) =>
              /\ baseLogger' = baseLogger
              /\ closer' = closer
              /\ onceRanEntries' = onceRanEntries
              /\ onceMutex' = onceMutex
              /\ sinkVars' = sinkVars
              /\ pc[p] = "set_logger" => logger'.next = baseLogger]_vars

\* SetLogLevel has completed on a Logger that holds dedup keys
C8_Witness ==
    \E p \in Procs :
        /\ pc[p] = "ret"
        /\ call[p].op = "SetLogLevel"
        /\ onceRanEntries # {}
        /\ level = ToLower(call[p].lvl)
        /\ logger.next = baseLogger

\* ---------------------------------------------------- encoder claim
\* the pairs of a: the positions of their keys
PairSlots(a) == {i \in 1..Len(a) : i % 2 = 1}

\* C9: the array mapToArray returns has no unfilled slot; it starts with
\* ("level", detail["level"]) then ("event", event) if detail has the key
\* "level", and with ("event", event) otherwise; every other key of detail
\* fills, with its value, exactly one of the pairs that follow, and "level"
\* is the key of at most one pair.
C9_MapToArray ==
    encDone =>
        LET a == encOut
            first == IF HasKey(encDetail, "level") THEN 3 ELSE 1
        IN /\ Len(a) = (2 * PairsLen(encDetail)) + 2
           /\ \A i \in 1..Len(a) : a[i] # NilIface
           /\ HasKey(encDetail, "level") =>
                 (a[1] = Str("level") /\ a[2] = encDetail.kv["level"])
           /\ a[first] = Str("event")
           /\ a[first + 1] = Str(encEvent)
           /\ \A k \in PairsKeys(encDetail) \ {"level"} :
                 \E i \in PairSlots(a) :
                    /\ i > first
                    /\ a[i] = Str(k)
                    /\ a[i + 1] = encDetail.kv[k]
                    /\ \A j \in PairSlots(a) : (j > first /\ a[j] = Str(k)) => j = i
           /\ Cardinality({i \in PairSlots(a) : a[i] = Str("level")}) <= 1

\* a detail with "level" and other keys has been encoded
C9_Witness ==
    /\ encDone
    /\ HasKey(encDetail, "level")
    /\ PairsLen(encDetail) >= 3
    /\ Len(encOut) = 8

\* ------------------------------------------------- file-name claim
EndsWith(str, suffix) ==
    Len(str) >= Len(suffix)
    /\ SubSeq(str, Len(str) - Len(suffix) + 1, Len(str)) = suffix

\* the decimal numeral of an integer
Decimal(n) == IF n < 0 THEN <<"-">> \o Itoa(-n) ELSE Itoa(n)

\* C11: for every non-zero instance identifier and every path ending in
\* ".log" the file name is the path with its ".log" suffix replaced by
\* ".<id>.log", and for identifier 0 it is the path unchanged.
C11_Claim ==
    nameDone =>
        /\ (nameConf.InstanceID # 0 /\ EndsWith(nameConf.LogFile, s_dotlog)) =>
              nameOut = SubSeq(nameConf.LogFile, 1, Len(nameConf.LogFile) - Len(s_dotlog))
                        \o <<".">> \o Decimal(nameConf.InstanceID) \o s_dotlog
        /\ nameConf.InstanceID = 0 => nameOut = nameConf.LogFile

\* ---------------------------------------------- lock-scope claim
\* C12: in every Once operation the lock covers only the presence check and
\* the insert; it is released before the emission, so no caller has written
\* a record while it still holds onceMutex.
C12_Claim ==
    \A p \in Procs : (pc[p] = "once_unlock" /\ Wrote(p)) => onceMutex # p

\* ------------------------------------------- reconfiguration claims
\* what a Logger whose level string is lv does with a call of op
Decides(lv, op) ==
    IF op = "Trace" THEN lv = s_trace
    ELSE SevRank(SevOf(op)) >= ThresholdRank(lv)

\* C13: an emission that runs concurrently with a SetLogLevel call is
\* accepted or rejected as the configuration before that call or the one
\* after it decides, and the active writer is never absent or half-built.
C13_Claim ==
    /\ logger.next = baseLogger
    /\ \A p \in Procs :
          (pc[p] = "ret" /\ call[p].op \in LevelOps \cup {"Trace"}) =>
              \E lv \in cands[p] : Wrote(p) <=> Decides(lv, call[p].op)

\* C14: in every state, those inside another caller's SetLogLevel call
\* included, the active writer's threshold is the one the stored level
\* string maps to.
C14_Claim == logger = NewFilter(baseLogger, AllowedFor(level))

\* ------------------------------------------------ dedup-set claims
\* C15 (step part): no step of any call removes a key from the dedup set.
C15_Grows == onceRanEntries \subseteq onceRanEntries'

\* C15: the dedup set only grows: no step of any call removes a key, the key
\* of every Once call that has returned is present, and no <<operation, key>>
\* returns true a second time.
C15_OnlyGrows ==
    /\ [](\A id \in OnceIds :
            /\ onceTrue[id] <= 1
            /\ onceDone[id] > 0 => OnceKey(id[1], id[2]) \in onceRanEntries)
    /\ [][C15_Grows]_vars

\* a second call of the same Once operation and key has returned, not true
C15_Witness == \E id \in OnceIds : onceDone[id] = 2 /\ onceTrue[id] = 1

\* ------------------------------------------------ nil-detail claim
OnlyLevelAndEvent(r) == Len(r) = 4 /\ r[1] = Str("level") /\ r[3] = Str("event")

\* C16: Info, Warn, Error, Debug, Trace (at level "trace") and Fatal (with a
\* negative code) called with a nil detail complete normally, and the record
\* they write carries only the level and the event fields.
C16_Claim ==
    \A p \in Procs :
        (/\ call[p].op \in LevelOps \cup {"Trace", "Fatal"}
         /\ call[p].detail.nil
         /\ call[p].op = "Fatal" => call[p].code < 0) =>
            /\ ~(term.done /\ term.by = p)
            /\ (pc[p] = "ret" /\ Wrote(p)) => OnlyLevelAndEvent(wrote[p])
            /\ (pc[p] = "ret" /\ call[p].op = "Fatal") => Wrote(p)

\* -------------------------------------------------- termination claim
\* C17: with concurrent callers of InfoOnce, WarnOnce, ErrorOnce and
\* HasWarnedOnce under fair scheduling, every call returns and the mutex,
\* once taken, becomes free again.
C17_Terminates ==
    /\ \A p \in Procs : (pc[p] # "idle") ~> (pc[p] = "idle")
    /\ (onceMutex # 0) ~> (onceMutex = 0)

\* a caller waits for the mutex while another one, holding it, is about to
\* write its record
C17_Witness ==
    \E p, q \in Procs :
        /\ pc[p] \in {"once_lock", "hw_lock"}
        /\ pc[q] = "once_emit"
        /\ onceMutex = q

\* ------------------------------------------------ record-layout claim
\* C18: every record Info, Warn, Error or Debug writes, whatever the detail
\* (one with a "level" key included), has exactly one level field, valued
\* with the severity of the operation, then the event field, then the
\* remaining pairs of the detail.
C18_Claim ==
    \A p \in Procs :
        (pc[p] = "ret" /\ call[p].op \in LevelOps /\ Wrote(p)) =>
            LET r == wrote[p]
                rest == PairsKeys(call[p].detail) \ {"level"}
            IN  /\ Len(r) = 4 + 2 * Cardinality(rest)
                /\ r[1] = Str("level") /\ r[2] = LevelValue(SevOf(call[p].op))
                /\ r[3] = Str("event") /\ r[4] = Str(call[p].event)
                /\ Cardinality({i \in PairSlots(r) : r[i] = Str("level")}) = 1
                /\ {<<r[i], r[i + 1]>> : i \in PairSlots(r) \ {1, 3}}
                       = {<<Str(k), call[p].detail.kv[k]>> : k \in rest}

\* ------------------------------------------- once-versus-filter claim
\* C19: the once-bookkeeping does not depend on the filter: the first call
\* of a Once operation for a key inserts the key and returns true whether
\* or not the threshold lets its record through (a blocked one writes
\* nothing), and a later call for that key writes nothing and returns
\* false, even after SetLogLevel lowered the threshold.
C19_Sticky ==
    \A p \in Procs :
        (pc[p] = "once_unlock" /\ call[p].op \in OnceOps) =>
            LET id == <<call[p].op, call[p].key>>
            IN  /\ onceDone[id] = 0 =>
                      /\ ret[p]
                      /\ OnceKey(call[p].op, call[p].key) \in onceRanEntries
                      /\ Wrote(p) <=> SevRank(SevOf(call[p].op)) >= ThresholdRank(level)
                /\ onceDone[id] > 0 => (~ret[p] /\ ~Wrote(p))

\* a second call for a key whose first call was blocked, made after
\* SetLogLevel opened the threshold, is about to return: nothing was written
C19_Witness ==
    \E p \in Procs :
        /\ pc[p] = "once_unlock" /\ call[p].op \in OnceOps
        /\ onceDone[<<call[p].op, call[p].key>>] = 1
        /\ SevRank(SevOf(call[p].op)) >= ThresholdRank(level)
        /\ sink.n = 0

====
